---- MODULE Spec2Model ----
(***************************************************************************)
(* Model of the route-position simulator (AutoSimulator) and of the        *)
(* accident warning system (AccidentWarningSystem) of Baza_Mapa.           *)
(*                                                                         *)
(* Python floats are modelled as exact fractions [n |-> , d |-> ] in lowest *)
(* terms with d > 0; rounding is not modelled.  Route points are           *)
(* (lat, lon) pairs on an integer grid next to the equator, one grid step  *)
(* being 1/22220 degree; distances are WGS-84 lengths to the centimetre.   *)
(***************************************************************************)
EXTENDS Integers, Sequences, FiniteSets, TLC

\* ------------------------------------------------------------------ bounds
MaxRoute == 3          \* longest route, in points
MaxSpeedTens == 2      \* increase_speed is exercised below 10*MaxSpeedTens km/h
MaxRows == 3           \* most raw rows in the accident file
MaxCount == 8          \* largest count given to klasifikuj_opasnost on its own

\* ------------------------------------------------------- exact arithmetic
Abs(x) == IF x < 0 THEN -x ELSE x

RECURSIVE GCD(_, _)
GCD(a, b) == IF b = 0 THEN a ELSE GCD(b, a % b)

\* the fraction n/d (d > 0) in lowest terms
Rat(n, d) ==
    LET g == GCD(Abs(n), d)
    IN  [n |-> n \div g, d |-> d \div g]

Zero == Rat(0, 1)
RatInt(k) == Rat(k, 1)
RatAdd(a, b) ==
    LET g == GCD(a.d, b.d)
    IN  Rat(a.n * (b.d \div g) + b.n * (a.d \div g), a.d * (b.d \div g))
RatMul(a, b) == Rat(a.n * b.n, a.d * b.d)
RatMulInt(a, k) == Rat(a.n * k, a.d)
RatDivInt(a, k) == Rat(a.n, a.d * k)          \* k > 0
RatDiv(a, b) == Rat(a.n * b.d, a.d * b.n)     \* b > 0
RatLess(a, b) == a.n * b.d < b.n * a.d
RatLeq(a, b) == a.n * b.d <= b.n * a.d
RatGeqOne(a) == a.n >= a.d

\* ------------------------------------------------------------ route space
Lats == {0, 1}
Lons == {0, 1}
Points == Lats \X Lons
Routes == UNION {[1..k -> Points] : k \in 1..MaxRoute}
InitSpeeds == {5, 10}
Intervals == {1}

VARIABLES
    route_coords,       \* self.route_coords: sequence of (lat, lon)
    speed_kmh,          \* self.speed_kmh
    interval,           \* self.interval (seconds)
    running,            \* self.running
    current_segment,    \* self.current_segment (0-based, as in the code)
    progress,           \* self.progress, a fraction
    distance_per_step,  \* self.distance_per_step (metres), a fraction
    last_call,          \* name of the last method called on the simulator
    before,             \* history: cursor and speed at the start of the last call
    returned,           \* position <<lat, lon>> the last call returned, <<>> if it returned none
    info,               \* <<snapshot>> the last call returned, <<>> if it returned none
    error,              \* "none" or the exception the last call raised
    fajl,               \* the accident file: <<>> when absent, else <<raw rows>>
    tip_indeksa,        \* the index type the system was constructed with
    gdf_nezgode,        \* self.gdf_nezgode: <<>> for None, else <<table>>
    indeks,             \* self.indeks: <<>> for None, else <<set of (id, bounds) entries>>
    sistem,             \* "nema" (no instance), "spreman" (constructed), "greska" (__init__ raised)
    upit,               \* <<>> or <<the last query: point and time>>
    ocena,              \* <<>> or <<ukupno, doba_dana, doba_godine>> of the last call
    nivo,               \* "" or the label klasifikuj_opasnost returned last
    greska,             \* "none" or the exception the last call on the system raised
    pc,                 \* where the driver (__main__) is: "off" when no driver runs
    step_count,         \* step_count of the driver's loop
    moves               \* history: number of move() calls of the driver's loop that returned

simvars == <<route_coords, speed_kmh, interval, running, current_segment, progress,
             distance_per_step, last_call, before, returned, info, error>>

sysvars == <<fajl, tip_indeksa, gdf_nezgode, indeks, sistem, upit, ocena, nivo, greska>>

drvvars == <<pc, step_count, moves>>

vars == <<simvars, sysvars, drvvars>>

\* len(self.route_coords) - 1
LastIndex(route) == Len(route) - 1

\* route_coords[i] for a 0-based index i
At(route, i) == route[i + 1]

RECURSIVE IsqrtBetween(_, _, _)
\* the largest r in lo..hi with r * r <= x (lo * lo <= x)
IsqrtBetween(x, lo, hi) ==
    IF lo >= hi THEN lo
    ELSE LET mid == (lo + hi + 1) \div 2
         IN  IF mid * mid <= x THEN IsqrtBetween(x, mid, hi)
                               ELSE IsqrtBetween(x, lo, mid - 1)

\* geodesic(start, end).meters on the WGS-84 ellipsoid, to the centimetre.
\* At the equator a grid step of latitude is 4.97634 m and one of longitude
\* 5.00988 m; over the few hundred metres of a segment the ellipsoid's
\* distance is the plane one.  Zero exactly for equal points.
geodesic(start, end) ==
    LET dy == (497634 * Abs(start[1] - end[1]) + 500) \div 1000
        dx == (500988 * Abs(start[2] - end[2]) + 500) \div 1000
        hi == IF dy + dx < 46340 THEN dy + dx ELSE 46340
    IN  Rat(IsqrtBetween(dy * dy + dx * dx, 0, hi), 100)

\* (speed_kmh * 1000 / 3600) * interval
DistancePerStep(speed, intv) == Rat(speed * 1000 * intv, 3600)

\* variant of get_current_position: the end of the route answered with route_coords[0]
get_current_position_first(route, seg, prog) ==
    IF seg >= LastIndex(route)
    THEN <<RatInt(At(route, 0)[1]), RatInt(At(route, 0)[2])>>
    ELSE LET start == At(route, seg)
             end == At(route, seg + 1)
         IN  <<RatAdd(RatInt(start[1]), RatMulInt(prog, end[1] - start[1])),
               RatAdd(RatInt(start[2]), RatMulInt(prog, end[2] - start[2]))>>

\* get_current_position for a given cursor
get_current_position(route, seg, prog) ==
    IF seg >= LastIndex(route)
    THEN <<RatInt(At(route, LastIndex(route))[1]), RatInt(At(route, LastIndex(route))[2])>>
    ELSE LET start == At(route, seg)
             end == At(route, seg + 1)
         IN  <<RatAdd(RatInt(start[1]), RatMulInt(prog, end[1] - start[1])),
               RatAdd(RatInt(start[2]), RatMulInt(prog, end[2] - start[2]))>>

\* is_finished
is_finished ==
    current_segment >= LastIndex(route_coords) /\ RatGeqOne(progress)

\* the cursor, as the history variable records it
Cursor ==
    [seg |-> current_segment, prog |-> progress, speed |-> speed_kmh,
     dps |-> distance_per_step]

\* move, line 45: the cursor is at the route's end
at_end(route, seg) == seg >= LastIndex(route)

\* variant of skip_segment: the step's distance is spent on the next segment
skip_segment_spend(seg, prog, dps) ==
    [seg |-> seg + 1, prog |-> RatAdd(prog, RatDivInt(dps, 100))]

\* move, lines 63-64: a zero-length segment is skipped
skip_segment(seg, prog, dps) == [seg |-> seg + 1, prog |-> Zero]

\* move, line 69: progress_increment = distance_per_step / segment_length
progress_increment(dps, segment_length) == RatDiv(dps, segment_length)

\* variant of next_segment: progress is reset but the index is not incremented
next_segment_stay(route, seg) == [seg |-> seg, prog |-> Zero]

\* variant of next_segment: the next segment is always skipped as well
next_segment_skip2(route, seg) == [seg |-> seg + 2, prog |-> Zero]

\* variant of next_segment: lines 81-90 left out, the index rises by one only
next_segment_one(route, seg) == [seg |-> seg + 1, prog |-> Zero]

\* move, lines 76-90: the segment is complete; go to the next one, and past
\* it too when it has length zero
next_segment(route, seg) ==
    LET s1 == seg + 1
    IN  IF s1 < LastIndex(route) /\ geodesic(At(route, s1), At(route, s1 + 1)) = Zero
        THEN [seg |-> s1 + 1, prog |-> Zero]
        ELSE [seg |-> s1, prog |-> Zero]

\* the cursor move() leaves, lines 45-90
move_cursor(route, seg, prog, dps) ==
    IF at_end(route, seg)
    THEN [seg |-> seg, prog |-> prog]
    ELSE LET segment_length == geodesic(At(route, seg), At(route, seg + 1))
         IN  IF segment_length = Zero
             THEN skip_segment(seg, prog, dps)
             ELSE LET p == RatAdd(prog, progress_increment(dps, segment_length))
                  IN  IF RatGeqOne(p) /\ seg < LastIndex(route)
                      THEN next_segment(route, seg)
                      ELSE [seg |-> seg, prog |-> p]

\* the fields move() has written after each of its assignments, in the order
\* it makes them (lines 46, 63, 64, 70, 77, 78, 89, 90); the last entry is
\* what the whole call leaves
move_writes(route, seg, prog, dps, run) ==
    IF at_end(route, seg)
    THEN <<[seg |-> seg, prog |-> prog, running |-> FALSE]>>
    ELSE LET segment_length == geodesic(At(route, seg), At(route, seg + 1))
         IN  IF segment_length = Zero
             THEN <<[seg |-> seg + 1, prog |-> prog, running |-> run],
                    [seg |-> seg + 1, prog |-> Zero, running |-> run]>>
             ELSE LET p == RatAdd(prog, progress_increment(dps, segment_length))
                      w70 == <<[seg |-> seg, prog |-> p, running |-> run]>>
                  IN  IF RatGeqOne(p) /\ seg < LastIndex(route)
                      THEN w70 \o <<[seg |-> seg, prog |-> Zero, running |-> run],
                                    [seg |-> seg + 1, prog |-> Zero, running |-> run]>>
                               \o (IF /\ seg + 1 < LastIndex(route)
                                      /\ geodesic(At(route, seg + 1), At(route, seg + 2)) = Zero
                                   THEN <<[seg |-> seg + 2, prog |-> Zero, running |-> run]>>
                                   ELSE <<>>)
                      ELSE w70

\* get_progress_info, lines 117-125; the division by total_segments raises
\* ZeroDivisionError when the route has one point
get_progress_info(route, seg, prog, speed) ==
    LET total_segments == Len(route) - 1
    IN  IF total_segments = 0
        THEN [error |-> "ZeroDivisionError", info |-> <<>>]
        ELSE [error |-> "none",
              info |-> <<[segment |-> seg,
                          total_segments |-> total_segments,
                          segment_progress |-> RatMulInt(prog, 100),
                          overall_progress |->
                              RatMulInt(RatDivInt(RatAdd(RatInt(seg), prog), total_segments), 100),
                          speed_kmh |-> speed]>>]

\* ------------------------------------------------- accident warning system
\* Coordinates of accidents and of query points are integers in units of
\* 1/111.1 degree (one kilometre of latitude), on a grid next to the equator,
\* where cos(lat) differs from 1 by less than 1e-6: the look-ahead window then
\* holds the same grid points as the square of half-side POGLED_UNAPRED_KM.
POGLED_UNAPRED_KM == 2
VREMENSKI_OPSEG_SATI == 1
VREMENSKI_OPSEG_DANA == 30
GODINA_ZA_ANALIZU == 2021

\* A cell of the date column is <<>> (empty or not a date text) or the fields
\* <<day, month, year, hour, minute>> of a text 'day.month.year,hour:minute'.
IsLeap(y) == y % 4 = 0 /\ (y % 100 # 0 \/ y % 400 = 0)

DaysInMonth(m, y) ==
    IF m = 2 THEN (IF IsLeap(y) THEN 29 ELSE 28)
    ELSE IF m \in {4, 6, 9, 11} THEN 30 ELSE 31

\* pd.to_datetime(..., errors='coerce', format='%d.%m.%Y,%H:%M'): <<>> is NaT
to_datetime(datum) ==
    IF /\ Len(datum) = 5
       /\ datum[2] \in 1..12
       /\ datum[1] >= 1
       /\ datum[1] <= DaysInMonth(datum[2], datum[3])
       /\ datum[4] \in 0..23
       /\ datum[5] \in 0..59
    THEN <<[day |-> datum[1], month |-> datum[2], year |-> datum[3],
            hour |-> datum[4], minute |-> datum[5]]>>
    ELSE <<>>

RECURSIVE DaysBefore(_, _)
DaysBefore(m, y) == IF m = 1 THEN 0 ELSE DaysBefore(m - 1, y) + DaysInMonth(m - 1, y)

\* Timestamp.dayofyear
dayofyear(ts) == DaysBefore(ts.month, ts.year) + ts.day

\* rows of the sheet with their row labels 0, 1, 2, ... and the parsed time
Labelled(rows) ==
    [i \in 1..Len(rows) |->
        [Index |-> i - 1, vreme_nezgode |-> to_datetime(rows[i].datum),
         lon |-> rows[i].lon, lat |-> rows[i].lat]]

\* df.dropna(subset=['vreme_nezgode', 'lon', 'lat'])
NotNa(r) == r.vreme_nezgode # <<>> /\ r.lon # <<>> /\ r.lat # <<>>

\* df['vreme_nezgode'].dt.year == GODINA_ZA_ANALIZU
InYear(r) == r.vreme_nezgode[1].year = GODINA_ZA_ANALIZU

\* one row of the GeoDataFrame: the label it keeps, its point, 'sat' and 'dan_u_godini'
GeoRow(r) ==
    [Index |-> r.Index, lon |-> r.lon[1], lat |-> r.lat[1],
     sat |-> r.vreme_nezgode[1].hour,
     dan_u_godini |-> dayofyear(r.vreme_nezgode[1])]

\* the rows that survive dropna and the year filter, in order, labels kept
Prepared(rows) ==
    LET kept == SelectSeq(SelectSeq(Labelled(rows), NotNa), InYear)
    IN  [i \in 1..Len(kept) |-> GeoRow(kept[i])]

\* _ucitaj_i_pripremi_podatke: <<>> is None (FileNotFoundError)
ucitaj_i_pripremi_podatke(f) ==
    IF f = <<>> THEN <<>> ELSE <<Prepared(f[1])>>

\* idx.insert(red.Index, red.geometry.bounds) for every row
InsertAll(gdf) ==
    {[id |-> gdf[i].Index,
      bounds |-> <<gdf[i].lon, gdf[i].lat, gdf[i].lon, gdf[i].lat>>] : i \in 1..Len(gdf)}

\* _izgradi_indeks: <<>> is None
izgradi_indeks(gdf_opt, tip) ==
    IF gdf_opt = <<>> THEN <<>>
    ELSE IF tip = "rtree" THEN <<InsertAll(gdf_opt[1])>>
    ELSE <<>>

\* _izgradi_indeks of zadatak1.py: the 'geohash' branch is a placeholder
\* that returns None
izgradi_indeks_zadatak1(gdf_opt, tip) ==
    IF gdf_opt = <<>> THEN <<>>
    ELSE IF tip = "rtree" THEN <<InsertAll(gdf_opt[1])>>
    ELSE IF tip = "geohash" THEN <<>>
    ELSE <<>>

\* _definisi_oblast_pretrage: (minx, miny, maxx, maxy) of the box around the point
definisi_oblast_pretrage(tacka) ==
    <<tacka.lon - POGLED_UNAPRED_KM, tacka.lat - POGLED_UNAPRED_KM,
      tacka.lon + POGLED_UNAPRED_KM, tacka.lat + POGLED_UNAPRED_KM>>

\* rectangle intersection of the R-tree, borders included
BoundsIntersect(b, w) ==
    b[1] <= w[3] /\ b[3] >= w[1] /\ b[2] <= w[4] /\ b[4] >= w[2]

\* self.indeks.intersection(oblast_pretrage.bounds): the ids found
intersection(idx, w) == {e.id : e \in {x \in idx : BoundsIntersect(x.bounds, w)}}

\* GeoSeries.intersects(oblast_pretrage) for a point row
intersects(r, w) ==
    w[1] <= r.lon /\ r.lon <= w[3] /\ w[2] <= r.lat /\ r.lat <= w[4]

\* self.gdf_nezgode.iloc[ids]: the rows at these POSITIONS (0-based)
iloc(gdf, ids) == {gdf[id + 1] : id \in ids}

\* Series.between(lo, hi), both ends included
between(x, lo, hi) == lo <= x /\ x <= hi

\* proveri_opasnosti_na_deonici
proveri_opasnosti_na_deonici(gdf, idx, tacka, vreme) ==
    LET oblast_pretrage == definisi_oblast_pretrage(tacka)
        ids_kandidata == intersection(idx, oblast_pretrage)
    IN  IF ids_kandidata = {}
        THEN [greska |-> "none", ocena |-> <<<<0, 0, 0>>>>]
        ELSE IF \E id \in ids_kandidata : id >= Len(gdf)
        THEN [greska |-> "IndexError", ocena |-> <<>>]
        ELSE
        LET nezgode_u_oblasti ==
                {r \in iloc(gdf, ids_kandidata) : intersects(r, oblast_pretrage)}
            broj_ukupno == Cardinality(nezgode_u_oblasti)
            sat == vreme.hour
            dan == dayofyear(vreme)
            broj_doba_dana == Cardinality({r \in nezgode_u_oblasti :
                between(r.sat, sat - VREMENSKI_OPSEG_SATI, sat + VREMENSKI_OPSEG_SATI)})
            broj_doba_godine == Cardinality({r \in nezgode_u_oblasti :
                between(r.dan_u_godini, dan - VREMENSKI_OPSEG_DANA, dan + VREMENSKI_OPSEG_DANA)})
        IN  IF broj_ukupno = 0
            THEN [greska |-> "none", ocena |-> <<<<0, 0, 0>>>>]
            ELSE [greska |-> "none",
                  ocena |-> <<<<broj_ukupno, broj_doba_dana, broj_doba_godine>>>>]

\* twice the score: 2 * (ukupno*1 + doba_godine*1.5 + doba_dana*2)
Skor2(ukupno, doba_dana, doba_godine) ==
    2 * ukupno + 3 * doba_godine + 4 * doba_dana

\* variant of klasifikuj_opasnost: the thresholds compared with >=
klasifikuj_opasnost_geq(ukupno, doba_dana, doba_godine) ==
    LET skor2 == Skor2(ukupno, doba_dana, doba_godine)
    IN  IF skor2 >= 2 * 15 THEN "VEOMA OPASNO"
        ELSE IF skor2 >= 2 * 8 THEN "OPASNO"
        ELSE IF skor2 >= 2 * 2 THEN "UMERENO OPASNO"
        ELSE "Bezbedno"

\* klasifikuj_opasnost
klasifikuj_opasnost(ukupno, doba_dana, doba_godine) ==
    LET skor2 == Skor2(ukupno, doba_dana, doba_godine)
    IN  IF skor2 > 2 * 15 THEN "VEOMA OPASNO"
        ELSE IF skor2 > 2 * 8 THEN "OPASNO"
        ELSE IF skor2 > 2 * 2 THEN "UMERENO OPASNO"
        ELSE "Bezbedno"

\* ---------------------------------------------------------- sample inputs
PointA == [lon |-> 0, lat |-> 0]
PointB == [lon |-> 1, lat |-> 1]
PointC == [lon |-> 6, lat |-> 0]

RawRow(datum, p) == [datum |-> datum, lon |-> <<p.lon>>, lat |-> <<p.lat>>]

RawRows ==
    { RawRow(<<>>, PointA),                                    \* no date text
      RawRow(<<31, 2, 2021, 10, 0>>, PointB),                   \* 31.02. does not parse
      RawRow(<<15, 6, 2020, 12, 0>>, PointA),                   \* another year
      [datum |-> <<1, 1, 2021, 0, 30>>, lon |-> <<>>, lat |-> <<0>>],  \* no longitude
      RawRow(<<1, 1, 2021, 0, 30>>, PointA),                    \* hour 0, day 1
      RawRow(<<31, 12, 2021, 23, 50>>, PointA),                 \* hour 23, day 365
      RawRow(<<31, 1, 2021, 1, 15>>, PointB),                   \* hour 1, day 31
      RawRow(<<1, 2, 2021, 2, 0>>, PointC) }                    \* hour 2, day 32

\* the file is absent, or holds between one and MaxRows raw rows
Files == {<<>>} \cup {<<rows>> : rows \in UNION {[1..k -> RawRows] : k \in 1..MaxRows}}

IndexTypes == {"rtree", "geohash", "kdtree"}

QueryPoints == {PointA, PointB, [lon |-> 5, lat |-> 1]}

\* pd.Timestamp.now() at the moment of a query
QueryTimes ==
    { to_datetime(<<1, 1, 2026, 0, 5>>)[1],       \* hour 0, day 1
      to_datetime(<<31, 1, 2026, 1, 0>>)[1],      \* hour 1, day 31
      to_datetime(<<1, 2, 2026, 2, 0>>)[1],       \* hour 2, day 32
      to_datetime(<<31, 12, 2026, 23, 0>>)[1] }   \* hour 23, day 365

SimInit ==
    /\ route_coords \in Routes
    /\ speed_kmh \in InitSpeeds
    /\ interval \in Intervals
    /\ running = FALSE
    /\ current_segment = 0
    /\ progress = Zero
    /\ distance_per_step = DistancePerStep(speed_kmh, interval)
    /\ last_call = "__init__"
    /\ before = Cursor
    /\ returned = <<>>
    /\ info = <<>>
    /\ error = "none"

\* no warning system is involved
SysIdle ==
    /\ fajl = <<>>
    /\ tip_indeksa = ""
    /\ gdf_nezgode = <<>>
    /\ indeks = <<>>
    /\ sistem = "nema"
    /\ upit = <<>>
    /\ ocena = <<>>
    /\ nivo = ""
    /\ greska = "none"

\* no driver runs: the objects are called directly
DrvIdle ==
    /\ pc = "off"
    /\ step_count = 0
    /\ moves = 0

Init == SimInit /\ SysIdle /\ DrvIdle

\* AutoSimulator.move
Move ==
    LET c == move_cursor(route_coords, current_segment, progress, distance_per_step)
    IN  /\ before' = Cursor
        /\ running' = IF at_end(route_coords, current_segment) THEN FALSE ELSE running
        /\ current_segment' = c.seg
        /\ progress' = c.prog
        /\ returned' = get_current_position(route_coords, c.seg, c.prog)
        /\ last_call' = "move"
        /\ error' = "none"
        /\ info' = <<>>
        /\ UNCHANGED <<route_coords, speed_kmh, interval, distance_per_step>>
        /\ UNCHANGED sysvars
        /\ UNCHANGED drvvars

\* AutoSimulator.get_current_position
GetCurrentPosition ==
    /\ before' = Cursor
    /\ returned' = get_current_position(route_coords, current_segment, progress)
    /\ last_call' = "get_current_position"
    /\ error' = "none"
    /\ info' = <<>>
    /\ UNCHANGED <<route_coords, speed_kmh, interval, running, current_segment,
                   progress, distance_per_step>>
    /\ UNCHANGED sysvars
    /\ UNCHANGED drvvars

\* AutoSimulator.increase_speed
IncreaseSpeed ==
    /\ speed_kmh + 10 <= 10 * MaxSpeedTens
    /\ before' = Cursor
    /\ speed_kmh' = speed_kmh + 10
    /\ distance_per_step' = DistancePerStep(speed_kmh', interval)
    /\ last_call' = "increase_speed"
    /\ error' = "none"
    /\ returned' = <<>>
    /\ info' = <<>>
    /\ UNCHANGED <<route_coords, interval, running, current_segment, progress>>
    /\ UNCHANGED sysvars
    /\ UNCHANGED drvvars

\* variant of may_decrease: any positive speed is lowered
may_decrease_positive(speed) == speed > 0

\* decrease_speed, line 104: if self.speed_kmh > 10
may_decrease(speed) == speed > 10

\* AutoSimulator.decrease_speed
DecreaseSpeed ==
    /\ before' = Cursor
    /\ IF may_decrease(speed_kmh)
       THEN /\ speed_kmh' = speed_kmh - 10
            /\ distance_per_step' = DistancePerStep(speed_kmh', interval)
       ELSE UNCHANGED <<speed_kmh, distance_per_step>>
    /\ last_call' = "decrease_speed"
    /\ error' = "none"
    /\ returned' = <<>>
    /\ info' = <<>>
    /\ UNCHANGED <<route_coords, interval, running, current_segment, progress>>
    /\ UNCHANGED sysvars
    /\ UNCHANGED drvvars

\* AutoSimulator.get_progress_info
GetProgressInfo ==
    LET r == get_progress_info(route_coords, current_segment, progress, speed_kmh)
    IN  /\ before' = Cursor
        /\ info' = r.info
        /\ error' = r.error
        /\ last_call' = "get_progress_info"
        /\ returned' = <<>>
        /\ UNCHANGED <<route_coords, speed_kmh, interval, running, current_segment,
                       progress, distance_per_step>>
        /\ UNCHANGED sysvars
        /\ UNCHANGED drvvars

\* the driver sets automobil.running = True before its loop (kolokvijum1_spatial.py:209)
Start ==
    /\ last_call = "__init__"
    /\ ~running
    /\ running' = TRUE
    /\ UNCHANGED <<route_coords, speed_kmh, interval, current_segment, progress,
                   distance_per_step, last_call, before, returned, info, error>>
    /\ UNCHANGED sysvars
    /\ UNCHANGED drvvars

Next ==
    \/ Start
    \/ Move
    \/ GetCurrentPosition
    \/ IncreaseSpeed
    \/ DecreaseSpeed
    \/ GetProgressInfo


Spec == Init /\ [][Next]_vars

\* a simulator that takes no part: one point, never called
SimIdle ==
    /\ route_coords = <<<<0, 0>>>>
    /\ speed_kmh = 10
    /\ interval = 1
    /\ running = FALSE
    /\ current_segment = 0
    /\ progress = Zero
    /\ distance_per_step = DistancePerStep(speed_kmh, interval)
    /\ last_call = "__init__"
    /\ before = Cursor
    /\ returned = <<>>
    /\ info = <<>>
    /\ error = "none"

\* the accident file is whatever is on disk; no system is constructed yet
SysInit ==
    /\ fajl \in Files
    /\ tip_indeksa = ""
    /\ gdf_nezgode = <<>>
    /\ indeks = <<>>
    /\ sistem = "nema"
    /\ upit = <<>>
    /\ ocena = <<>>
    /\ nivo = ""
    /\ greska = "none"

\* variant of construct_outcome: the test of self.indeks is left out
construct_outcome_unchecked(idx) == "spreman"

\* __init__, lines 41-43: raise when no index was built
construct_outcome(idx) == IF idx = <<>> THEN "greska" ELSE "spreman"

\* AccidentWarningSystem.__init__(putanja_do_fajla, tip_indeksa)
Construct ==
    /\ sistem = "nema"
    /\ \E tip \in IndexTypes :
        LET gdf == ucitaj_i_pripremi_podatke(fajl)
            idx == izgradi_indeks(gdf, tip)
        IN  /\ tip_indeksa' = tip
            /\ gdf_nezgode' = gdf
            /\ indeks' = idx
            /\ sistem' = construct_outcome(idx)
            /\ greska' = IF construct_outcome(idx) = "greska" THEN "Exception" ELSE "none"
    /\ UNCHANGED <<fajl, upit, ocena, nivo>>
    /\ UNCHANGED simvars
    /\ UNCHANGED drvvars

\* sistem.proveri_opasnosti_na_deonici(trenutna_lokacija, trenutno_vreme)
Assess ==
    /\ sistem = "spreman"
    /\ \E tacka \in QueryPoints, vreme \in QueryTimes :
        LET r == proveri_opasnosti_na_deonici(gdf_nezgode[1], indeks[1], tacka, vreme)
        IN  /\ upit' = <<[tacka |-> tacka, vreme |-> vreme]>>
            /\ ocena' = r.ocena
            /\ greska' = r.greska
    /\ UNCHANGED <<fajl, tip_indeksa, gdf_nezgode, indeks, sistem, nivo>>
    /\ UNCHANGED simvars
    /\ UNCHANGED drvvars

\* sistem.klasifikuj_opasnost(ukupno, doba_dana, doba_godine) on the counts just returned
ClassifyAssessment ==
    /\ sistem = "spreman"
    /\ ocena # <<>>
    /\ nivo' = klasifikuj_opasnost(ocena[1][1], ocena[1][2], ocena[1][3])
    /\ UNCHANGED <<fajl, tip_indeksa, gdf_nezgode, indeks, sistem, upit, ocena, greska>>
    /\ UNCHANGED simvars
    /\ UNCHANGED drvvars

SysNext ==
    \/ Construct
    \/ Assess
    \/ ClassifyAssessment

SysSpecInit == SimIdle /\ SysInit /\ DrvIdle

SysSpec == SysSpecInit /\ [][SysNext]_vars

\* AccidentWarningSystem.klasifikuj_opasnost (static) on any counts
Classify ==
    /\ \E u \in 0..MaxCount, dd \in 0..MaxCount, dg \in 0..MaxCount :
        /\ ocena' = <<<<u, dd, dg>>>>
        /\ nivo' = klasifikuj_opasnost(u, dd, dg)
    /\ UNCHANGED <<fajl, tip_indeksa, gdf_nezgode, indeks, sistem, upit, greska>>
    /\ UNCHANGED simvars
    /\ UNCHANGED drvvars

ClassifyInit == SimIdle /\ SysIdle /\ DrvIdle

ClassifyNext == Classify

ClassifySpec == ClassifyInit /\ [][ClassifyNext]_vars

\* ------------------------------------------------- the driver (__main__)
\* the accident file the driver finds: absent, one 2021 row at the start of
\* the route, an unreadable row followed by such a row, or a row of 2020
DriverFiles ==
    { <<>>,
      << <<RawRow(<<1, 1, 2021, 0, 30>>, PointA)>> >>,
      << <<RawRow(<<>>, PointA), RawRow(<<1, 1, 2021, 0, 30>>, PointA)>> >>,
      << <<RawRow(<<15, 6, 2020, 12, 0>>, PointA)>> >> }

\* pd.Timestamp.now() at a tick of the driver
DriverTimes ==
    { to_datetime(<<1, 1, 2026, 0, 5>>)[1],       \* hour 0, day 1
      to_datetime(<<1, 2, 2026, 2, 0>>)[1] }      \* hour 2, day 32

\* AutoSimulator(route_coords, speed_kmh=250, interval=1.0)
DriverSpeedKmh == 250

\* the routes get_route_coords hands to the driver: up to MaxRoute points,
\* neighbours 50 grid steps (about 250 m) apart or equal
DriverPoints == {0, 50} \X {0, 50}
DriverRoutes == UNION {[1..k -> DriverPoints] : k \in 1..MaxRoute}

\* Point(lon, lat) of the car's position <<lat, lon>>, on the accident grid:
\* a unit of that grid (1/111.1 degree) is 200 steps of the route's grid
trenutna_lokacija_point(pos) ==
    [lon |-> pos[2].n \div (pos[2].d * 200), lat |-> pos[1].n \div (pos[1].d * 200)]

\* `if sistem_upozorenja:` the global holds a constructed system
engine_set(s) == s = "spreman"

\* sistem_upozorenja.proveri_opasnosti_na_deonici(...) on whatever index the
\* object holds: None has no attribute 'intersection'
assess_call(gdf_opt, idx_opt, tacka, vreme) ==
    IF idx_opt = <<>> \/ gdf_opt = <<>>
    THEN [greska |-> "AttributeError", ocena |-> <<>>]
    ELSE proveri_opasnosti_na_deonici(gdf_opt[1], idx_opt[1], tacka, vreme)

\* `if automobil.is_finished(): break`, else back to `while automobil.running`
after_tick == IF is_finished THEN "done" ELSE "loop"

\* the state the driver starts from: nothing loaded, the route it will be
\* given, the simulator's fields as line 208 will set them
DriverInit ==
    /\ route_coords \in DriverRoutes
    /\ speed_kmh = DriverSpeedKmh
    /\ interval = 1
    /\ running = FALSE
    /\ current_segment = 0
    /\ progress = Zero
    /\ distance_per_step = DistancePerStep(speed_kmh, interval)
    /\ last_call = "__init__"
    /\ before = Cursor
    /\ returned = <<>>
    /\ info = <<>>
    /\ error = "none"
    /\ fajl \in DriverFiles
    /\ tip_indeksa = ""
    /\ gdf_nezgode = <<>>
    /\ indeks = <<>>
    /\ sistem = "nema"
    /\ upit = <<>>
    /\ ocena = <<>>
    /\ nivo = ""
    /\ greska = "none"
    /\ pc = "load"
    /\ step_count = 0
    /\ moves = 0

\* load_accidents_data(): construct the system with the default index
\* type 'rtree', keep None when the construction raises
DrvLoad ==
    /\ pc = "load"
    /\ LET gdf == ucitaj_i_pripremi_podatke(fajl)
           idx == izgradi_indeks(gdf, "rtree")
       IN  /\ tip_indeksa' = "rtree"
           /\ gdf_nezgode' = gdf
           /\ indeks' = idx
           /\ sistem' = construct_outcome(idx)
           /\ greska' = "none"
    /\ pc' = "start"
    /\ UNCHANGED <<fajl, upit, ocena, nivo, step_count, moves>>
    /\ UNCHANGED simvars

\* automobil = AutoSimulator(route_coords, speed_kmh=250, interval=1.0);
\* automobil.running = True; step_count = 0
DrvStart ==
    /\ pc = "start"
    /\ speed_kmh' = DriverSpeedKmh
    /\ interval' = 1
    /\ current_segment' = 0
    /\ progress' = Zero
    /\ distance_per_step' = DistancePerStep(speed_kmh', interval')
    /\ running' = TRUE
    /\ step_count' = 0
    /\ pc' = "loop"
    /\ UNCHANGED <<route_coords, last_call, before, returned, info, error, moves>>
    /\ UNCHANGED sysvars

\* while automobil.running: auto_current_pos = automobil.move()
DrvMove ==
    /\ pc = "loop"
    /\ running
    /\ LET c == move_cursor(route_coords, current_segment, progress, distance_per_step)
       IN  /\ before' = Cursor
           /\ running' = IF at_end(route_coords, current_segment) THEN FALSE ELSE running
           /\ current_segment' = c.seg
           /\ progress' = c.prog
           /\ returned' = get_current_position(route_coords, c.seg, c.prog)
           /\ last_call' = "move"
           /\ error' = "none"
           /\ info' = <<>>
    /\ moves' = moves + 1
    /\ pc' = "info"
    /\ UNCHANGED <<route_coords, speed_kmh, interval, distance_per_step, step_count>>
    /\ UNCHANGED sysvars

\* while automobil.running: the flag is down, the loop is left
DrvExit ==
    /\ pc = "loop"
    /\ ~running
    /\ pc' = "done"
    /\ UNCHANGED <<step_count, moves>>
    /\ UNCHANGED simvars
    /\ UNCHANGED sysvars

\* move_auto_marker(lat, lon, automobil.get_progress_info(), ...); step_count += 1
\* an exception other than KeyboardInterrupt leaves the program
DrvInfo ==
    /\ pc = "info"
    /\ LET r == get_progress_info(route_coords, current_segment, progress, speed_kmh)
       IN  /\ before' = Cursor
           /\ info' = r.info
           /\ error' = r.error
           /\ last_call' = "get_progress_info"
           /\ step_count' = IF r.error = "none" THEN step_count + 1 ELSE step_count
           /\ pc' = IF r.error = "none" THEN "check" ELSE "crashed"
    /\ UNCHANGED <<route_coords, speed_kmh, interval, running, current_segment,
                   progress, distance_per_step, returned, moves>>
    /\ UNCHANGED sysvars

\* step_count % 5 == 0 and the global is set: assess and classify
DrvAssess ==
    /\ pc = "check"
    /\ step_count % 5 = 0
    /\ engine_set(sistem)
    /\ \E vreme \in DriverTimes :
        LET tacka == trenutna_lokacija_point(returned)
            r == assess_call(gdf_nezgode, indeks, tacka, vreme)
        IN  /\ upit' = <<[tacka |-> tacka, vreme |-> vreme]>>
            /\ ocena' = IF r.greska = "none" THEN r.ocena ELSE ocena
            /\ greska' = r.greska
            /\ nivo' = IF r.greska = "none"
                       THEN klasifikuj_opasnost(r.ocena[1][1], r.ocena[1][2], r.ocena[1][3])
                       ELSE nivo
            /\ pc' = IF r.greska = "none" THEN after_tick ELSE "crashed"
    /\ UNCHANGED <<fajl, tip_indeksa, gdf_nezgode, indeks, sistem, step_count, moves>>
    /\ UNCHANGED simvars

\* step_count % 5 == 0 and the global is None: only a message is printed
DrvSkip ==
    /\ pc = "check"
    /\ step_count % 5 = 0
    /\ ~engine_set(sistem)
    /\ pc' = after_tick
    /\ UNCHANGED <<step_count, moves>>
    /\ UNCHANGED simvars
    /\ UNCHANGED sysvars

\* step_count % 5 != 0: no assessment at this tick
DrvNoCheck ==
    /\ pc = "check"
    /\ step_count % 5 # 0
    /\ pc' = after_tick
    /\ UNCHANGED <<step_count, moves>>
    /\ UNCHANGED simvars
    /\ UNCHANGED sysvars

\* KeyboardInterrupt before the try block (lines 184-216), nothing
\* constructed yet in this step: it is not caught, the program ends
DrvAbort ==
    /\ pc \in {"load", "start"}
    /\ pc' = "aborted"
    /\ UNCHANGED <<step_count, moves>>
    /\ UNCHANGED simvars
    /\ UNCHANGED sysvars

\* KeyboardInterrupt after line 208 or 209 and before the try block: the
\* simulator is constructed, running is or is not yet set; not caught
DrvAbortStarted ==
    /\ pc = "start"
    /\ speed_kmh' = DriverSpeedKmh
    /\ interval' = 1
    /\ current_segment' = 0
    /\ progress' = Zero
    /\ distance_per_step' = DistancePerStep(speed_kmh', interval')
    /\ running' \in BOOLEAN
    /\ pc' = "aborted"
    /\ UNCHANGED <<route_coords, last_call, before, returned, info, error>>
    /\ UNCHANGED <<step_count, moves>>
    /\ UNCHANGED sysvars

\* KeyboardInterrupt after the loop, in the except clause's print (line
\* 260) or in finish_drive() (line 262), outside the try block: not caught
DrvAbortFinish ==
    /\ pc \in {"done", "interrupted"}
    /\ pc' = "aborted"
    /\ UNCHANGED <<step_count, moves>>
    /\ UNCHANGED simvars
    /\ UNCHANGED sysvars

\* KeyboardInterrupt inside automobil.move() (line 221): the call has made
\* some of its assignments and does not return
DrvInterruptInMove ==
    /\ pc = "loop"
    /\ running
    /\ LET w == move_writes(route_coords, current_segment, progress,
                            distance_per_step, running)
       IN  \E i \in 1..Len(w) :
              /\ current_segment' = w[i].seg
              /\ progress' = w[i].prog
              /\ running' = w[i].running
    /\ before' = Cursor
    /\ last_call' = "move"
    /\ pc' = "interrupted"
    /\ UNCHANGED <<route_coords, speed_kmh, interval, distance_per_step,
                   returned, info, error>>
    /\ UNCHANGED <<step_count, moves>>
    /\ UNCHANGED sysvars

\* KeyboardInterrupt inside proveri_opasnosti_na_deonici (lines 104-129):
\* the query is made, the call does not return; counts and label are the
\* ones of the previous assessment
DrvInterruptInProveri ==
    /\ pc = "check"
    /\ step_count % 5 = 0
    /\ engine_set(sistem)
    /\ \E vreme \in DriverTimes :
        upit' = <<[tacka |-> trenutna_lokacija_point(returned), vreme |-> vreme]>>
    /\ pc' = "interrupted"
    /\ UNCHANGED <<fajl, tip_indeksa, gdf_nezgode, indeks, sistem, ocena, nivo, greska,
                   step_count, moves>>
    /\ UNCHANGED simvars

\* KeyboardInterrupt after proveri_opasnosti_na_deonici returned (line 238)
\* and before klasifikuj_opasnost did (line 240): the counts are new, the
\* label is the one of the previous assessment
DrvInterruptInAssess ==
    /\ pc = "check"
    /\ step_count % 5 = 0
    /\ engine_set(sistem)
    /\ \E vreme \in DriverTimes :
        LET tacka == trenutna_lokacija_point(returned)
            r == assess_call(gdf_nezgode, indeks, tacka, vreme)
        IN  /\ r.greska = "none"
            /\ upit' = <<[tacka |-> tacka, vreme |-> vreme]>>
            /\ ocena' = r.ocena
            /\ greska' = r.greska
    /\ pc' = "interrupted"
    /\ UNCHANGED <<fajl, tip_indeksa, gdf_nezgode, indeks, sistem, nivo, step_count, moves>>
    /\ UNCHANGED simvars

\* KeyboardInterrupt inside the try block between two calls (during
\* time.sleep, a print, the loop's own tests): the loop is left as it stands
DrvInterrupt ==
    /\ pc \in {"loop", "info", "check"}
    /\ pc' = "interrupted"
    /\ UNCHANGED <<step_count, moves>>
    /\ UNCHANGED simvars
    /\ UNCHANGED sysvars

\* KeyboardInterrupt inside move_auto_marker (plt.pause): get_progress_info()
\* has returned, step_count += 1 is not reached
DrvInterruptInPause ==
    /\ pc = "info"
    /\ LET r == get_progress_info(route_coords, current_segment, progress, speed_kmh)
       IN  /\ r.error = "none"
           /\ before' = Cursor
           /\ info' = r.info
           /\ error' = r.error
           /\ last_call' = "get_progress_info"
    /\ pc' = "interrupted"
    /\ UNCHANGED <<route_coords, speed_kmh, interval, running, current_segment,
                   progress, distance_per_step, returned>>
    /\ UNCHANGED <<step_count, moves>>
    /\ UNCHANGED sysvars

DriverNext ==
    \/ DrvLoad
    \/ DrvStart
    \/ DrvMove
    \/ DrvExit
    \/ DrvInfo
    \/ DrvAssess
    \/ DrvSkip
    \/ DrvNoCheck
    \/ DrvAbort
    \/ DrvAbortStarted
    \/ DrvAbortFinish
    \/ DrvInterrupt
    \/ DrvInterruptInMove
    \/ DrvInterruptInPause
    \/ DrvInterruptInProveri
    \/ DrvInterruptInAssess

DriverSpec == DriverInit /\ [][DriverNext]_vars


\* ------------------------------------------------------------------ claims
NonzeroSegments(route) ==
    \A i \in 1..(Len(route) - 1) : geodesic(route[i], route[i + 1]) # Zero

LastPoint(route) ==
    <<RatInt(route[Len(route)][1]), RatInt(route[Len(route)][2])>>

\* C1 (as claimed): on a route of at least 2 points with only nonzero-length
\* segments, finitely many move() calls make is_finished() true, and it stays
\* true.  A move() called at the end of the route changes nothing, and no
\* other call changes current_segment or progress, so is_finished() has its
\* final value there: by then it must be true.
C1_FinishedAtEnd ==
    (/\ Len(route_coords) >= 2
     /\ NonzeroSegments(route_coords)
     /\ last_call = "move"
     /\ before.seg = LastIndex(route_coords))
        => is_finished

\* C3: on a route of at least 2 points with nonzero segments and positive
\* speed, a move() never decreases current_segment, and decreases progress
\* only when it increases current_segment.
C3_LexMonotonic ==
    [][(/\ Len(route_coords) >= 2
        /\ NonzeroSegments(route_coords)
        /\ speed_kmh > 0
        /\ last_call' = "move")
       => /\ current_segment' >= current_segment
          /\ (RatLess(progress', progress) => current_segment' > current_segment)]_vars

\* a move() that completed a nonzero segment: the index rose, progress fell to 0
C3_Witness ==
    /\ Len(route_coords) >= 2
    /\ NonzeroSegments(route_coords)
    /\ last_call = "move"
    /\ current_segment = before.seg + 1
    /\ RatLess(progress, before.prog)

\* C4: a move() called with current_segment = len(route)-1 leaves
\* current_segment, progress, speed_kmh and distance_per_step as they were
\* and returns the route's last point.
C4_TerminalNoOp ==
    (last_call = "move" /\ before.seg = LastIndex(route_coords))
        => /\ Cursor = before
           /\ returned = LastPoint(route_coords)

\* move() was called at the terminal point of a route it had travelled
C4_Witness ==
    /\ Len(route_coords) >= 2
    /\ last_call = "move"
    /\ before.seg = LastIndex(route_coords)
    /\ ~running
    /\ returned = LastPoint(route_coords)

\* C5 (as claimed): a one-point route is finished from construction on, and
\* get_current_position returns its single point.
C5_OnePointFinished ==
    (Len(route_coords) = 1 /\ last_call = "__init__")
        => /\ is_finished
           /\ get_current_position(route_coords, current_segment, progress)
                  = LastPoint(route_coords)

\* C6 (as claimed): get_progress_info never raises a division by zero.
C6_NoDivisionByZero == error # "ZeroDivisionError"

\* C7: a move() called on a non-terminal segment of length zero sets
\* current_segment to i+1 and progress to 0, applies no increment, leaves the
\* speed alone and returns the position of the new cursor.
C7_ZeroSegmentSkipped ==
    (/\ last_call = "move"
     /\ before.seg < LastIndex(route_coords)
     /\ geodesic(At(route_coords, before.seg), At(route_coords, before.seg + 1)) = Zero)
        => /\ current_segment = before.seg + 1
           /\ progress = Zero
           /\ speed_kmh = before.speed
           /\ distance_per_step = before.dps
           /\ returned = get_current_position(route_coords, before.seg + 1, Zero)

\* a zero-length segment in the middle of a route was skipped by one move()
C7_Witness ==
    /\ last_call = "move"
    /\ before.seg > 0
    /\ before.seg < LastIndex(route_coords)
    /\ geodesic(At(route_coords, before.seg), At(route_coords, before.seg + 1)) = Zero
    /\ current_segment = before.seg + 1
    /\ progress = Zero
\* the loaded records that lie inside the search window of the last query,
\* as a scan of the whole table finds them
InWindow ==
    LET gdf == gdf_nezgode[1]
        w == definisi_oblast_pretrage(upit[1].tacka)
    IN  {i \in 1..Len(gdf) : intersects(gdf[i], w)}

\* C2 (as claimed): for any dataset and any query point, ukupno as returned by
\* proveri_opasnosti_na_deonici is the number of loaded records inside the
\* search window.
C2_TotalIsBruteForce ==
    (sistem = "spreman" /\ upit # <<>>)
        => /\ ocena # <<>>
           /\ ocena[1][1] = Cardinality(InWindow)

\* C8: klasifikuj_opasnost labels by the score total + 1.5*season + 2*hour with
\* strict thresholds 15, 8 and 2 (the labels are the code's: VEOMA OPASNO,
\* OPASNO, UMERENO OPASNO, Bezbedno); written on the doubled score.
C8_Classification ==
    (ocena # <<>> /\ nivo # "")
        => LET total == ocena[1][1]
               sameHour == ocena[1][2]
               sameSeason == ocena[1][3]
               twice == 2 * total + 3 * sameSeason + 4 * sameHour
           IN  /\ (nivo = "VEOMA OPASNO") <=> (twice > 30)
               /\ (nivo = "OPASNO") <=> (twice > 16 /\ twice <= 30)
               /\ (nivo = "UMERENO OPASNO") <=> (twice > 4 /\ twice <= 16)
               /\ (nivo = "Bezbedno") <=> (twice <= 4)
               /\ nivo \in {"VEOMA OPASNO", "OPASNO", "UMERENO OPASNO", "Bezbedno"}

\* the boundary score 15 (total 5, 2 in the hour window, 4 in the season
\* window) was classified, and fell in the lower class
C8_Witness ==
    /\ ocena = <<<<5, 2, 4>>>>
    /\ nivo = "OPASNO"

\* C9 (as claimed): doba_dana is the number of records inside the window with
\* sat-1 <= hour <= sat+1, doba_godine the number with dan-30 <= day <= dan+30,
\* bounds included and without wrap-around.
C9_TemporalCounts ==
    (sistem = "spreman" /\ upit # <<>> /\ ocena # <<>>)
        => LET gdf == gdf_nezgode[1]
               sat == upit[1].vreme.hour
               dan == dayofyear(upit[1].vreme)
           IN  /\ ocena[1][2] = Cardinality({i \in InWindow :
                      sat - 1 <= gdf[i].sat /\ gdf[i].sat <= sat + 1})
               /\ ocena[1][3] = Cardinality({i \in InWindow :
                      dan - 30 <= gdf[i].dan_u_godini /\ gdf[i].dan_u_godini <= dan + 30})

\* C10 (as claimed): no constructed system exists over an absent file or over
\* a table left empty by the row filters.
C10_NoSystemOverEmptyData ==
    (sistem = "spreman")
        => /\ fajl # <<>>
           /\ gdf_nezgode # <<>>
           /\ Len(gdf_nezgode[1]) > 0
\* C13: from a positive speed, under any interleaving of increase_speed,
\* decrease_speed and move, speed_kmh stays positive, a decrease_speed lowers
\* the speed by 10 exactly when it was above 10 and changes nothing otherwise,
\* and distance_per_step is speed_kmh*1000/3600*interval (= 5*speed*interval/18)
\* for the current speed.
C13_SpeedPositiveStepDerived ==
    /\ speed_kmh > 0
    /\ distance_per_step.n * 18 = 5 * speed_kmh * interval * distance_per_step.d
    /\ (last_call = "decrease_speed")
           => /\ speed_kmh = IF before.speed > 10 THEN before.speed - 10 ELSE before.speed
              /\ (before.speed <= 10 => distance_per_step = before.dps)

\* decrease_speed was called at the floor, in the middle of a segment, and was refused
C13_Witness ==
    /\ last_call = "decrease_speed"
    /\ before.speed = 10
    /\ speed_kmh = 10
    /\ progress # Zero

\* C14: on a non-empty route, after every completed call
\* 0 <= current_segment <= len(route)-1 and 0 <= progress < 1.
C14_CursorInRange ==
    /\ Len(route_coords) >= 1
    /\ current_segment >= 0
    /\ current_segment <= LastIndex(route_coords)
    /\ progress.n >= 0
    /\ progress.n < progress.d

\* a move() that started inside a segment ended on the last index of a route
\* of three points or more
C14_Witness ==
    /\ Len(route_coords) >= 3
    /\ last_call = "move"
    /\ before.seg < LastIndex(route_coords)
    /\ current_segment = LastIndex(route_coords)
    /\ before.prog # Zero

\* the last move() was called on a nonzero-length segment and brought progress to 1.0 or more
CompletedSegment ==
    /\ last_call = "move"
    /\ before.seg < LastIndex(route_coords)
    /\ geodesic(At(route_coords, before.seg), At(route_coords, before.seg + 1)) # Zero
    /\ RatGeqOne(RatAdd(before.prog,
           RatDiv(before.dps,
               geodesic(At(route_coords, before.seg), At(route_coords, before.seg + 1)))))

\* the segment after the one the last move() was called on exists and has length zero
NextSegmentIsZero ==
    /\ before.seg + 1 < LastIndex(route_coords)
    /\ geodesic(At(route_coords, before.seg + 1), At(route_coords, before.seg + 2)) = Zero

\* C15 (as claimed): a move() that completes a nonzero-length segment resets
\* progress to 0 and raises current_segment by exactly one, whatever the
\* lengths of the following segments; no move() raises it by more than one.
C15_OneSegmentPerCall ==
    /\ CompletedSegment => (progress = Zero /\ current_segment = before.seg + 1)
    /\ (last_call = "move") => current_segment <= before.seg + 1

\* C15 (amended): a move() that completes a nonzero-length segment resets
\* progress to 0 and raises current_segment by one, or by two when the
\* segment that follows is not beyond the route's end and has length zero; no
\* move() raises current_segment by more than two.
C15_OneOrTwoSegmentsPerCall ==
    /\ CompletedSegment
           => /\ progress = Zero
              /\ current_segment =
                     IF NextSegmentIsZero THEN before.seg + 2 ELSE before.seg + 1
    /\ (last_call = "move") => current_segment <= before.seg + 2

\* a move() completed a segment and passed the zero-length segment after it too
C15_Witness ==
    /\ CompletedSegment
    /\ NextSegmentIsZero
    /\ current_segment = before.seg + 2
    /\ progress = Zero
\* C12 (as claimed): both index backends, 'rtree' and 'geohash', can be
\* selected at construction (and then give the same counts and label): a
\* system constructed over a file that is present with either type is ready,
\* in kolokvijum1_spatial.py and in zadatak1.py.
C12_BothBackendsSelectable ==
    (sistem # "nema" /\ fajl # <<>> /\ tip_indeksa \in {"rtree", "geohash"})
        => /\ sistem = "spreman"
           /\ izgradi_indeks_zadatak1(gdf_nezgode, tip_indeksa) # <<>>
\* C11: the assessment is never executed against a missing index.  A
\* construction with an index type other than 'rtree' raises and yields no
\* system, whatever the file; after a failed construction the driver's
\* global stays unset and no tick calls the assessment (no query is ever
\* recorded, no AttributeError is ever raised); every assessment that was
\* executed ran on a constructed system holding an index.
C11_NoAssessWithoutIndex ==
    /\ greska # "AttributeError"
    /\ \A tip \in IndexTypes \ {"rtree"} :
          /\ izgradi_indeks(ucitaj_i_pripremi_podatke(fajl), tip) = <<>>
          /\ construct_outcome(izgradi_indeks(ucitaj_i_pripremi_podatke(fajl), tip))
                = "greska"
    /\ (indeks = <<>>) => sistem # "spreman"
    /\ (pc \in {"start", "loop", "info", "check", "done", "crashed"} /\ indeks = <<>>)
            => sistem = "greska"
    /\ (sistem = "greska") => (upit = <<>> /\ ocena = <<>> /\ nivo = "")
    /\ (upit # <<>>) => (sistem = "spreman" /\ indeks # <<>>)

\* the construction failed (the file is absent) and the fifth tick went by
\* without an assessment
C11_Witness ==
    /\ fajl = <<>>
    /\ sistem = "greska"
    /\ indeks = <<>>
    /\ step_count = 5
    /\ pc = "loop"
    /\ upit = <<>>

\* move() calls that take the cursor over segment i (1-based) at step dps:
\* the least k with k * dps >= length, one call for a zero-length segment
SegmentMoves(route, i, dps) ==
    LET len == geodesic(route[i], route[i + 1])
        q == RatDiv(len, dps)
    IN  IF len = Zero THEN 1 ELSE (q.n + q.d - 1) \div q.d

RECURSIVE RouteMoves(_, _, _)
\* move() calls that take the cursor over segments 1..k
RouteMoves(route, k, dps) ==
    IF k = 0 THEN 0 ELSE RouteMoves(route, k - 1, dps) + SegmentMoves(route, k, dps)

\* the calls over the whole route, and the one made at the terminal point
MovesBound(route, dps) == RouteMoves(route, Len(route) - 1, dps) + 1

\* each tick of the loop holds exactly one move()
OneMovePerTick ==
    /\ (pc \in {"loop", "check", "done"}) => moves = step_count
    /\ (pc = "info") => moves = step_count + 1

\* C16 (as claimed): for every route of at least one point the driver's
\* loop, when not interrupted, ends by itself: the number of ticks is
\* bounded by the route, when the loop has ended the cursor is at the
\* terminal point and the running flag is down, the move() called at the
\* terminal point clears the flag, and each tick holds exactly one move().
C16_LoopStopsAtTerminal ==
    /\ moves <= MovesBound(route_coords, distance_per_step)
    /\ (pc \in {"done", "crashed"})
            => (at_end(route_coords, current_segment) /\ ~running)
    /\ (pc = "info" /\ before.seg = LastIndex(route_coords)) => ~running
    /\ OneMovePerTick

\* what holds of the loop when no call in it raises: the same statement
\* for the runs that leave the loop through `while automobil.running`
C16_StopsAtTerminalUnlessRaised ==
    /\ moves <= MovesBound(route_coords, distance_per_step)
    /\ (pc = "done") => (at_end(route_coords, current_segment) /\ ~running)
    /\ (pc = "crashed") => (error = "ZeroDivisionError" \/ greska = "IndexError")
    /\ (pc = "info" /\ before.seg = LastIndex(route_coords)) => ~running
    /\ (pc = "check") => ~is_finished
    /\ OneMovePerTick

\* the last assignment of move() leaves what the whole call leaves
MoveWritesEndInMoveCursor ==
    LET w == move_writes(route_coords, current_segment, progress, distance_per_step, running)
        c == move_cursor(route_coords, current_segment, progress, distance_per_step)
    IN  /\ w[Len(w)].seg = c.seg
        /\ w[Len(w)].prog = c.prog

\* a KeyboardInterrupt caught inside move() left progress at 1.0 or more
InterruptedHalfMoved ==
    /\ pc = "interrupted"
    /\ last_call = "move"
    /\ RatGeqOne(progress)

====
